---- MODULE Spec2Model ----
(***************************************************************************)
(* enorm_ (MINPACK, f2c translation): the Euclidean norm of an n-vector,   *)
(* accumulated in three sums (large, intermediate, small components).      *)
(* Source: src/python-ios/src/scipy_files/scipy/patches/optimize/minpack/  *)
(* enorm.c.                                                                *)
(*                                                                         *)
(* The routine is modelled statement by statement.  Its locals declared    *)
(* `static` (enorm.c:32-33) are single module-level variables shared by    *)
(* every invocation; its automatic locals (enorm.c:25-26) and arguments    *)
(* are per invocation (indexed by the calling thread).                     *)
(*                                                                         *)
(* A doublereal is modelled as an exact extended rational <<num, den>>     *)
(* with den >= 0 in lowest terms; <<1,0>> is +Inf, <<-1,0>> is -Inf and    *)
(* <<0,0>> is NaN, so that a division by zero yields what IEEE arithmetic  *)
(* yields.  Rounding is not modelled (arithmetic is exact), and sqrt is    *)
(* kept symbolic: a value coef * sqrt(rad).  TLC integers are 32 bits      *)
(* wide, so magnitudes are measured on a reduced scale: rdwarf and rgiant  *)
(* are stand-ins that keep the order the code's constants have,            *)
(* 0 < rdwarf < 1 < rgiant / n for every n the model calls with.           *)
(***************************************************************************)
EXTENDS Integers, Sequences, FiniteSets, TLC

\* Longest vector the caller holds (and largest n the sequential caller passes).
MaxLen == 3

\* Largest n a concurrent caller passes.
ConcLen == 2

\* ------------------------------------------------------------------------
\* doublereal arithmetic
\* ------------------------------------------------------------------------

IAbs(a) == IF a < 0 THEN -a ELSE a

ISign(a) == IF a < 0 THEN -1 ELSE IF a > 0 THEN 1 ELSE 0

RECURSIVE Gcd(_, _)
Gcd(a, b) == IF b = 0 THEN a ELSE Gcd(b, a % b)

\* The extended rational num/den (den >= 0) in lowest terms.
Rat(num, den) ==
    IF den = 0 THEN <<ISign(num), 0>>
    ELSE LET g == Gcd(IAbs(num), den) IN <<num \div g, den \div g>>

NaN == <<0, 0>>
Inf == <<1, 0>>

IsNaN(a) == a = NaN

dAdd(a, b) ==
    IF a[2] = 0 /\ b[2] = 0
    THEN (IF a = b THEN a ELSE NaN)
    ELSE Rat(a[1] * b[2] + b[1] * a[2], a[2] * b[2])

dMul(a, b) == Rat(a[1] * b[1], a[2] * b[2])

dDiv(a, b) ==
    LET sg == IF b[1] < 0 THEN -1 ELSE 1
    IN  Rat(sg * a[1] * b[2], sg * a[2] * b[1])

dLt(a, b) == ~IsNaN(a) /\ ~IsNaN(b) /\ a # b /\ a[1] * b[2] < b[1] * a[2]

dLe(a, b) == ~IsNaN(a) /\ ~IsNaN(b) /\ (a = b \/ a[1] * b[2] < b[1] * a[2])

dGt(a, b) == dLt(b, a)

dGe(a, b) == dLe(b, a)

dEq(a, b) == ~IsNaN(a) /\ ~IsNaN(b) /\ a = b

dNe(a, b) == ~dEq(a, b)

\* f2c.h: #define abs(x) ((x) >= 0 ? (x) : -(x))
dAbs(a) == IF dGe(a, <<0, 1>>) THEN a ELSE <<-a[1], a[2]>>

dSquare(a) == dMul(a, a)

\* (doublereal) of an integer
dOfInt(k) == <<k, 1>>

\* sqrt, symbolic: the value coef * sqrt(rad)
dSqrt(a) == [coef |-> <<1, 1>>, rad |-> a]

dScale(c, r) == [coef |-> dMul(c, r.coef), rad |-> r.rad]

\* The square of a value coef * sqrt(rad)
SquareOf(r) == dMul(dSquare(r.coef), r.rad)

\* ------------------------------------------------------------------------
\* Initialized data (enorm.c:19-22)
\* ------------------------------------------------------------------------

one == <<1, 1>>

zero == <<0, 1>>

\* enorm.c:21-22 set rdwarf = 3.834e-20 and rgiant = 1.304e19.  On the
\* model's reduced scale they are 1/4 and 16: as in the code, rdwarf < 1,
\* rdwarf < rgiant / n and 1 < rgiant / n for every n passed.
rdwarf == <<1, 4>>

rgiant == <<16, 1>>

\* ------------------------------------------------------------------------
\* The caller
\* ------------------------------------------------------------------------

Threads == {1, 2}

\* Element values the caller's array may hold: a zero, two small values
\* (one equal to rdwarf), an intermediate one whose square is below rdwarf,
\* and two that are large for n >= 2 (8 = rgiant / 2, 16 = rgiant / 1).
Vals == {<<0, 1>>, <<1, 8>>, <<1, 4>>, <<-1, 3>>, <<8, 1>>, <<-16, 1>>}

\* The array two concurrent callers share.
ConcPattern == <<<<16, 1>>, <<-1, 2>>, <<1, 4>>>>

ConcMem == [k \in 1..MaxLen |-> ConcPattern[((k - 1) % Len(ConcPattern)) + 1]]

\* An automatic variable that has not been assigned.
Unassigned == [unassigned |-> TRUE]

\* What reading an unassigned automatic double may yield.
Garbage == {dSqrt(zero), dSqrt(one)}

VARIABLES
    mem,        \* the caller's array of doublereal, 1..MaxLen
    harness,    \* "sequential": thread 1 calls again and again;
                \* "concurrent": threads 1 and 2 each call once
    pc,         \* per thread: the statement enorm_ is at ("idle", "done" outside)
    n,          \* per thread: *n
    x,          \* per thread: x after --x (element i is mem[x + i])
    i__1,       \* per thread: automatic
    d__1,       \* per thread: automatic
    ret_val,    \* per thread: automatic
    result,     \* per thread: the value the last invocation returned
    i__, s1, s2, s3, xabs, x1max, x3max, agiant, floatn,   \* static locals
    fresh,      \* per thread: the statics this invocation has assigned
    stale,      \* per thread: this invocation read a static it had not assigned
    nbody,      \* per thread: loop bodies this invocation has executed
    xread,      \* per thread: the indices of x this invocation has read
    divlog,     \* per thread: <<site, divisor is zero>> of each division executed
    assigns     \* per thread: the statements that assigned ret_val, in order

statics == <<i__, s1, s2, s3, xabs, x1max, x3max, agiant, floatn>>

args == <<n, x>>

autos == <<i__1, d__1, ret_val>>

ghosts == <<fresh, stale, nbody, xread, divlog, assigns>>

vars == <<mem, harness, pc, args, autos, result, statics, ghosts>>

\* Statics are zero-initialized at program start; automatics hold nothing.
InitState ==
    /\ pc = [t \in Threads |-> "idle"]
    /\ n = [t \in Threads |-> 0]
    /\ x = [t \in Threads |-> 0]
    /\ i__1 = [t \in Threads |-> 0]
    /\ d__1 = [t \in Threads |-> Unassigned]
    /\ ret_val = [t \in Threads |-> Unassigned]
    /\ result = [t \in Threads |-> Unassigned]
    /\ i__ = 0
    /\ s1 = zero /\ s2 = zero /\ s3 = zero
    /\ xabs = zero /\ x1max = zero /\ x3max = zero
    /\ agiant = zero /\ floatn = zero
    /\ fresh = [t \in Threads |-> {}]
    /\ stale = [t \in Threads |-> FALSE]
    /\ nbody = [t \in Threads |-> 0]
    /\ xread = [t \in Threads |-> {}]
    /\ divlog = [t \in Threads |-> {}]
    /\ assigns = [t \in Threads |-> <<>>]

Init ==
    /\ mem \in [1..MaxLen -> Vals]
    /\ harness = "sequential"
    /\ InitState

InitConc ==
    /\ mem = ConcMem
    /\ harness = "concurrent"
    /\ InitState

\* Bookkeeping of one statement: the statics it reads before assigning
\* them itself, and the statics it assigns.
Touch(t, reads, writes) ==
    /\ stale' = [stale EXCEPT ![t] = @ \/ ~(reads \subseteq fresh[t])]
    /\ fresh' = [fresh EXCEPT ![t] = @ \cup writes]

Goto(t, label) == pc' = [pc EXCEPT ![t] = label]

\* x[i]: an index outside the caller's array reads whatever lies there.
Load(idx) == IF idx \in 1..MaxLen THEN {mem[idx]} ELSE Vals

\* Where a thread may call from: the sequential caller (thread 1) calls
\* again after each return; a concurrent caller calls once.
CallableAt(t) ==
    IF harness = "sequential"
    THEN (IF t = 1 THEN {"idle", "done"} ELSE {})
    ELSE {"idle"}

\* A caller invokes enorm_(&n, x) on the first or the last n elements of its
\* array (x points one element before them).
Lengths == 0..(IF harness = "concurrent" THEN ConcLen ELSE MaxLen)

Windows(len) == IF len = 0 THEN {0} ELSE {0, MaxLen - len}

Call(t) ==
    /\ pc[t] \in CallableAt(t)
    /\ \E len \in Lengths : \E off \in Windows(len) :
          /\ n' = [n EXCEPT ![t] = len]
          /\ x' = [x EXCEPT ![t] = off]
    /\ i__1' = [i__1 EXCEPT ![t] = 0]
    /\ d__1' = [d__1 EXCEPT ![t] = Unassigned]
    /\ ret_val' = [ret_val EXCEPT ![t] = Unassigned]
    /\ fresh' = [fresh EXCEPT ![t] = {}]
    /\ stale' = [stale EXCEPT ![t] = FALSE]
    /\ nbody' = [nbody EXCEPT ![t] = 0]
    /\ xread' = [xread EXCEPT ![t] = {}]
    /\ divlog' = [divlog EXCEPT ![t] = {}]
    /\ assigns' = [assigns EXCEPT ![t] = <<>>]
    /\ Goto(t, "L76")
    /\ UNCHANGED <<mem, harness, result, statics>>


\* InitSums without `s2 = zero`: s2 keeps what the previous invocation left.
InitSumsKeepS2(t) ==
    /\ pc[t] = "L76"
    /\ s1' = zero /\ s3' = zero
    /\ x1max' = zero /\ x3max' = zero
    /\ Touch(t, {}, {"s1", "s3", "x1max", "x3max"})
    /\ Goto(t, "L81")
    /\ UNCHANGED <<mem, harness, args, autos, result, i__, s2, xabs, agiant, floatn,
                   nbody, xread, divlog, assigns>>

\* enorm.c:76-80
InitSums(t) ==
    /\ pc[t] = "L76"
    /\ s1' = zero /\ s2' = zero /\ s3' = zero
    /\ x1max' = zero /\ x3max' = zero
    /\ Touch(t, {}, {"s1", "s2", "s3", "x1max", "x3max"})
    /\ Goto(t, "L81")
    /\ UNCHANGED <<mem, harness, args, autos, result, i__, xabs, agiant, floatn,
                   nbody, xread, divlog, assigns>>

\* enorm.c:81-82
SetAgiant(t) ==
    /\ pc[t] = "L81"
    /\ floatn' = dOfInt(n[t])
    /\ agiant' = dDiv(rgiant, floatn')
    /\ divlog' = [divlog EXCEPT ![t] = @ \cup {<<"L82", dEq(floatn', zero)>>}]
    /\ Touch(t, {}, {"floatn", "agiant"})
    /\ Goto(t, "L83")
    /\ UNCHANGED <<mem, harness, args, autos, result, i__, s1, s2, s3, xabs,
                   x1max, x3max, nbody, xread, assigns>>


\* ForInit with the loop started at 0 instead of 1.
ForInitFromZero(t) ==
    /\ pc[t] = "L83"
    /\ i__1' = [i__1 EXCEPT ![t] = n[t]]
    /\ i__' = 0
    /\ Touch(t, {}, {"i__"})
    /\ Goto(t, "L84")
    /\ UNCHANGED <<mem, harness, args, d__1, ret_val, result, s1, s2, s3, xabs,
                   x1max, x3max, agiant, floatn, nbody, xread, divlog, assigns>>

\* enorm.c:83-84 (i__1 = *n; i__ = 1)
ForInit(t) ==
    /\ pc[t] = "L83"
    /\ i__1' = [i__1 EXCEPT ![t] = n[t]]
    /\ i__' = 1
    /\ Touch(t, {}, {"i__"})
    /\ Goto(t, "L84")
    /\ UNCHANGED <<mem, harness, args, d__1, ret_val, result, s1, s2, s3, xabs,
                   x1max, x3max, agiant, floatn, nbody, xread, divlog, assigns>>

\* enorm.c:84 (i__ <= i__1)
ForTest(t) ==
    /\ pc[t] = "L84"
    /\ Touch(t, {"i__"}, {})
    /\ Goto(t, IF i__ <= i__1[t] THEN "L85" ELSE "L144")
    /\ UNCHANGED <<mem, harness, args, autos, result, statics,
                   nbody, xread, divlog, assigns>>

\* enorm.c:85
LoadXabs(t) ==
    /\ pc[t] = "L85"
    /\ \E v \in Load(x[t] + i__) :
          /\ d__1' = [d__1 EXCEPT ![t] = v]
          /\ xabs' = dAbs(v)
    /\ nbody' = [nbody EXCEPT ![t] = @ + 1]
    /\ xread' = [xread EXCEPT ![t] = @ \cup {i__}]
    /\ Touch(t, {"i__"}, {"xabs"})
    /\ Goto(t, "L86")
    /\ UNCHANGED <<mem, harness, args, i__1, ret_val, result, i__, s1, s2, s3,
                   x1max, x3max, agiant, floatn, divlog, assigns>>


\* Section with `xabs >= rdwarf` for the `xabs > rdwarf` of enorm.c:86: an
\* element equal to rdwarf is summed as an intermediate one.
SectionDwarfInclusive(xa, ag) ==
    IF dGe(xa, rdwarf) /\ dLt(xa, ag) THEN "L135"
    ELSE IF dLe(xa, rdwarf) THEN "L113"
    ELSE "L95"

\* enorm.c:86-91: the section of the loop body the element goes to.
Section(xa, ag) ==
    IF dGt(xa, rdwarf) /\ dLt(xa, ag) THEN "L135"
    ELSE IF dLe(xa, rdwarf) THEN "L113"
    ELSE "L95"

Classify(t) ==
    /\ pc[t] = "L86"
    /\ Touch(t, {"xabs", "agiant"}, {})
    /\ Goto(t, Section(xabs, agiant))
    /\ UNCHANGED <<mem, harness, args, autos, result, statics,
                   nbody, xread, divlog, assigns>>


\* LargeStep without the `xabs <= x1max` test of enorm.c:95: every large
\* element is taken for a new maximum.
LargeStepAlwaysRescale(s, xmax, xa) ==
    LET q == dDiv(xmax, xa)
    IN  [sum |-> dAdd(one, dMul(s, dMul(q, q))), max |-> xa, d1 |-> q,
         divs |-> {<<"L99", dEq(xa, zero)>>}]

\* LargeStep rescaling s1 by the ratio x1max / xabs instead of its square.
LargeStepRatioNotSquared(s, xmax, xa) ==
    IF dLe(xa, xmax)
    THEN LET q == dDiv(xa, xmax)
         IN  [sum |-> dAdd(s, dMul(q, q)), max |-> xmax, d1 |-> q,
              divs |-> {<<"L105", dEq(xmax, zero)>>}]
    ELSE LET q == dDiv(xmax, xa)
         IN  [sum |-> dAdd(one, dMul(s, q)), max |-> xa, d1 |-> q,
              divs |-> {<<"L99", dEq(xa, zero)>>}]

\* enorm.c:95-108, sum for large components: the new s1, x1max, d__1 and
\* the division executed.
LargeStep(s, xmax, xa) ==
    IF dLe(xa, xmax)
    THEN LET q == dDiv(xa, xmax)
         IN  [sum |-> dAdd(s, dMul(q, q)), max |-> xmax, d1 |-> q,
              divs |-> {<<"L105", dEq(xmax, zero)>>}]
    ELSE LET q == dDiv(xmax, xa)
         IN  [sum |-> dAdd(one, dMul(s, dMul(q, q))), max |-> xa, d1 |-> q,
              divs |-> {<<"L99", dEq(xa, zero)>>}]

SumLarge(t) ==
    /\ pc[t] = "L95"
    /\ LET r == LargeStep(s1, x1max, xabs)
       IN  /\ s1' = r.sum
           /\ x1max' = r.max
           /\ d__1' = [d__1 EXCEPT ![t] = r.d1]
           /\ divlog' = [divlog EXCEPT ![t] = @ \cup r.divs]
    /\ Touch(t, {"xabs", "x1max", "s1"}, {"s1", "x1max"})
    /\ Goto(t, "L139")
    /\ UNCHANGED <<mem, harness, args, i__1, ret_val, result, i__, s2, s3, xabs,
                   x3max, agiant, floatn, nbody, xread, assigns>>



\* SmallStep with `xabs < x3max` for the `xabs <= x3max` of enorm.c:113: an
\* element equal to the maximum (a zero among zeros) is taken for a new one.
SmallStepStrictTest(s, xmax, xa, d) ==
    IF dLt(xa, xmax)
    THEN IF dNe(xa, zero)
         THEN LET q == dDiv(xa, xmax)
              IN  [sum |-> dAdd(s, dMul(q, q)), max |-> xmax, d1 |-> q,
                   divs |-> {<<"L124", dEq(xmax, zero)>>}]
         ELSE [sum |-> s, max |-> xmax, d1 |-> d, divs |-> {}]
    ELSE LET q == dDiv(xmax, xa)
         IN  [sum |-> dAdd(one, dMul(s, dMul(q, q))), max |-> xa, d1 |-> q,
              divs |-> {<<"L117", dEq(xa, zero)>>}]

\* SmallStep without the `xabs != zero` guard of enorm.c:122.
SmallStepUnguarded(s, xmax, xa, d) ==
    IF dLe(xa, xmax)
    THEN LET q == dDiv(xa, xmax)
         IN  [sum |-> dAdd(s, dMul(q, q)), max |-> xmax, d1 |-> q,
              divs |-> {<<"L124", dEq(xmax, zero)>>}]
    ELSE LET q == dDiv(xmax, xa)
         IN  [sum |-> dAdd(one, dMul(s, dMul(q, q))), max |-> xa, d1 |-> q,
              divs |-> {<<"L117", dEq(xa, zero)>>}]

\* enorm.c:113-126, sum for small components: the new s3, x3max, d__1 and
\* the division executed (none for a zero element that is no new maximum).
SmallStep(s, xmax, xa, d) ==
    IF dLe(xa, xmax)
    THEN IF dNe(xa, zero)
         THEN LET q == dDiv(xa, xmax)
              IN  [sum |-> dAdd(s, dMul(q, q)), max |-> xmax, d1 |-> q,
                   divs |-> {<<"L124", dEq(xmax, zero)>>}]
         ELSE [sum |-> s, max |-> xmax, d1 |-> d, divs |-> {}]
    ELSE LET q == dDiv(xmax, xa)
         IN  [sum |-> dAdd(one, dMul(s, dMul(q, q))), max |-> xa, d1 |-> q,
              divs |-> {<<"L117", dEq(xa, zero)>>}]

SumSmall(t) ==
    /\ pc[t] = "L113"
    /\ LET r == SmallStep(s3, x3max, xabs, d__1[t])
       IN  /\ s3' = r.sum
           /\ x3max' = r.max
           /\ d__1' = [d__1 EXCEPT ![t] = r.d1]
           /\ divlog' = [divlog EXCEPT ![t] = @ \cup r.divs]
    /\ Touch(t, {"xabs", "x3max", "s3"}, {"s3", "x3max"})
    /\ Goto(t, "L139")
    /\ UNCHANGED <<mem, harness, args, i__1, ret_val, result, i__, s1, s2, xabs,
                   x1max, agiant, floatn, nbody, xread, assigns>>

\* enorm.c:135-136, sum for intermediate components.
InterStep(s, xa) == dAdd(s, dMul(xa, xa))

SumInter(t) ==
    /\ pc[t] = "L135"
    /\ d__1' = [d__1 EXCEPT ![t] = xabs]
    /\ s2' = InterStep(s2, xabs)
    /\ Touch(t, {"xabs", "s2"}, {"s2"})
    /\ Goto(t, "L139")
    /\ UNCHANGED <<mem, harness, args, i__1, ret_val, result, i__, s1, s3, xabs,
                   x1max, x3max, agiant, floatn, nbody, xread, divlog, assigns>>

\* enorm.c:84 (++i__), reached from L80
ForIncr(t) ==
    /\ pc[t] = "L139"
    /\ i__' = i__ + 1
    /\ Touch(t, {"i__"}, {"i__"})
    /\ Goto(t, "L84")
    /\ UNCHANGED <<mem, harness, args, autos, result, s1, s2, s3, xabs, x1max,
                   x3max, agiant, floatn, nbody, xread, divlog, assigns>>

\* enorm.c:144
TestS1(t) ==
    /\ pc[t] = "L144"
    /\ Touch(t, {"s1"}, {})
    /\ Goto(t, IF dEq(s1, zero) THEN "L150" ELSE "L147")
    /\ UNCHANGED <<mem, harness, args, autos, result, statics,
                   nbody, xread, divlog, assigns>>

\* enorm.c:147: x1max * sqrt(s1 + s2 / x1max / x1max)
LargeNorm(a1, a2, xmax) ==
    [val |-> dScale(xmax, dSqrt(dAdd(a1, dDiv(dDiv(a2, xmax), xmax)))),
     divs |-> {<<"L147", dEq(xmax, zero)>>}]

NormLarge(t) ==
    /\ pc[t] = "L147"
    /\ LET r == LargeNorm(s1, s2, x1max)
       IN  /\ ret_val' = [ret_val EXCEPT ![t] = r.val]
           /\ divlog' = [divlog EXCEPT ![t] = @ \cup r.divs]
    /\ assigns' = [assigns EXCEPT ![t] = Append(@, "L147")]
    /\ Touch(t, {"s1", "s2", "x1max"}, {})
    /\ Goto(t, "L164")
    /\ UNCHANGED <<mem, harness, args, i__1, d__1, result, statics, nbody, xread>>

\* enorm.c:150
TestS2(t) ==
    /\ pc[t] = "L150"
    /\ Touch(t, {"s2"}, {})
    /\ Goto(t, IF dEq(s2, zero) THEN "L161" ELSE "L153")
    /\ UNCHANGED <<mem, harness, args, autos, result, statics,
                   nbody, xread, divlog, assigns>>

\* enorm.c:153
InterGeCond(a2, xmax) == dGe(a2, xmax)

\* enorm.c:154: sqrt(s2 * (one + x3max / s2 * (x3max * s3)))
InterGeNorm(a2, a3, xmax) ==
    [val |-> dSqrt(dMul(a2, dAdd(one, dMul(dDiv(xmax, a2), dMul(xmax, a3))))),
     divs |-> {<<"L154", dEq(a2, zero)>>}]

NormInterGe(t) ==
    /\ pc[t] = "L153"
    /\ IF InterGeCond(s2, x3max)
       THEN LET r == InterGeNorm(s2, s3, x3max)
            IN  /\ ret_val' = [ret_val EXCEPT ![t] = r.val]
                /\ divlog' = [divlog EXCEPT ![t] = @ \cup r.divs]
                /\ assigns' = [assigns EXCEPT ![t] = Append(@, "L154")]
                /\ Touch(t, {"s2", "s3", "x3max"}, {})
       ELSE /\ UNCHANGED <<ret_val, divlog, assigns>>
            /\ Touch(t, {"s2", "x3max"}, {})
    /\ Goto(t, "L156")
    /\ UNCHANGED <<mem, harness, args, i__1, d__1, result, statics, nbody, xread>>


\* InterLtCond with the comparison of enorm.c:156 turned around.
InterLtCondReversed(a2, xmax) == dGt(a2, xmax)

\* enorm.c:156
InterLtCond(a2, xmax) == dLt(a2, xmax)

\* enorm.c:157: sqrt(x3max * (s2 / x3max + x3max * s3))
InterLtNorm(a2, a3, xmax) ==
    [val |-> dSqrt(dMul(xmax, dAdd(dDiv(a2, xmax), dMul(xmax, a3)))),
     divs |-> {<<"L157", dEq(xmax, zero)>>}]

NormInterLt(t) ==
    /\ pc[t] = "L156"
    /\ IF InterLtCond(s2, x3max)
       THEN LET r == InterLtNorm(s2, s3, x3max)
            IN  /\ ret_val' = [ret_val EXCEPT ![t] = r.val]
                /\ divlog' = [divlog EXCEPT ![t] = @ \cup r.divs]
                /\ assigns' = [assigns EXCEPT ![t] = Append(@, "L157")]
                /\ Touch(t, {"s2", "s3", "x3max"}, {})
       ELSE /\ UNCHANGED <<ret_val, divlog, assigns>>
            /\ Touch(t, {"s2", "x3max"}, {})
    /\ Goto(t, "L164")
    /\ UNCHANGED <<mem, harness, args, i__1, d__1, result, statics, nbody, xread>>

\* enorm.c:161: x3max * sqrt(s3)
SmallNorm(a3, xmax) == dScale(xmax, dSqrt(a3))

NormSmall(t) ==
    /\ pc[t] = "L161"
    /\ ret_val' = [ret_val EXCEPT ![t] = SmallNorm(s3, x3max)]
    /\ assigns' = [assigns EXCEPT ![t] = Append(@, "L161")]
    /\ Touch(t, {"s3", "x3max"}, {})
    /\ Goto(t, "L164")
    /\ UNCHANGED <<mem, harness, args, i__1, d__1, result, statics,
                   nbody, xread, divlog>>

\* enorm.c:164: an unassigned ret_val returns whatever the register holds.
Return(t) ==
    /\ pc[t] = "L164"
    /\ \E v \in (IF ret_val[t] = Unassigned THEN Garbage ELSE {ret_val[t]}) :
          result' = [result EXCEPT ![t] = v]
    /\ Goto(t, "done")
    /\ UNCHANGED <<mem, harness, args, autos, statics, ghosts>>

Step(t) ==
    \/ Call(t)
    \/ InitSums(t)
    \/ SetAgiant(t)
    \/ ForInit(t)
    \/ ForTest(t)
    \/ LoadXabs(t)
    \/ Classify(t)
    \/ SumLarge(t)
    \/ SumSmall(t)
    \/ SumInter(t)
    \/ ForIncr(t)
    \/ TestS1(t)
    \/ NormLarge(t)
    \/ TestS2(t)
    \/ NormInterGe(t)
    \/ NormInterLt(t)
    \/ NormSmall(t)
    \/ Return(t)

Next == \E t \in Threads : Step(t)

\* One thread calling enorm_ again and again.
Spec == Init /\ [][Next]_vars

\* Two threads, each calling enorm_ once, on one shared array.
SpecConc == InitConc /\ [][Next]_vars

\* ------------------------------------------------------------------------
\* enorm_ read as a function of (n, x): one invocation run from entry to
\* return with nothing else touching its variables.
\* ------------------------------------------------------------------------

\* enorm.c:84-140 from element i on, acc holding s1, s2, s3, x1max, x3max.
RECURSIVE AloneLoop(_, _, _, _, _)
AloneLoop(acc, off, i, len, ag) ==
    IF i > len THEN acc
    ELSE LET xa == dAbs(mem[off + i])
             sec == Section(xa, ag)
             lg == LargeStep(acc.s1, acc.x1max, xa)
             sm == SmallStep(acc.s3, acc.x3max, xa, xa)
             nxt == IF sec = "L135" THEN [acc EXCEPT !.s2 = InterStep(acc.s2, xa)]
                    ELSE IF sec = "L113"
                    THEN [acc EXCEPT !.s3 = sm.sum, !.x3max = sm.max]
                    ELSE [acc EXCEPT !.s1 = lg.sum, !.x1max = lg.max]
         IN  AloneLoop(nxt, off, i + 1, len, ag)

\* enorm.c:144-164
AloneCombine(acc) ==
    IF dNe(acc.s1, zero) THEN LargeNorm(acc.s1, acc.s2, acc.x1max).val
    ELSE IF dNe(acc.s2, zero)
    THEN (IF dGe(acc.s2, acc.x3max)
          THEN InterGeNorm(acc.s2, acc.s3, acc.x3max).val
          ELSE InterLtNorm(acc.s2, acc.s3, acc.x3max).val)
    ELSE SmallNorm(acc.s3, acc.x3max)

\* enorm.c:76-164
AloneNorm(off, len) ==
    AloneCombine(AloneLoop([s1 |-> zero, s2 |-> zero, s3 |-> zero,
                            x1max |-> zero, x3max |-> zero],
                           off, 1, len, dDiv(rgiant, dOfInt(len))))

\* The invocation of thread t is past its initialisation (enorm.c:76-83).
Running(t) == pc[t] \notin {"idle", "L76", "L81", "L83"}

InLoop(t) == pc[t] \in {"L84", "L85", "L86", "L95", "L113", "L135", "L139"}

Finished(t) == pc[t] \in {"L164", "done"}

\* The number of elements whose loop body thread t has completed.
Processed(t) ==
    IF pc[t] \in {"L84", "L85", "L86", "L95", "L113", "L135"} THEN i__ - 1
    ELSE IF pc[t] = "L139" THEN i__
    ELSE IF Running(t) THEN n[t]
    ELSE 0

\* The sites of the divisions an invocation has executed.
Sites(t) == {d[1] : d \in divlog[t]}

\* ------------------------------------------------------------------------
\* Properties
\* ------------------------------------------------------------------------

\* C1: concurrent invocations do not disturb each other: every invocation
\* that has returned, under any interleaving with another thread's
\* invocation, returned the value it returns when run alone on its (n, x).
C1_ConcurrentCallsReturnAloneValue ==
    \A t \in Threads :
        pc[t] = "done" => result[t] = AloneNorm(x[t], n[t])

\* C2: enorm_ is stateless between calls: no invocation reads a static
\* local before assigning it itself, and the value every invocation returns
\* is the function AloneNorm of its own (n, x), whatever earlier
\* invocations left in the static locals.
C2_StatelessBetweenCalls ==
    \A t \in Threads :
        /\ ~stale[t]
        /\ pc[t] = "done" => result[t] = AloneNorm(x[t], n[t])

\* C2 witness: a later invocation (n = 0) has returned 0 while the static
\* xabs still holds the nonzero value an earlier invocation left there.
C2_Witness ==
    /\ pc[1] = "done"
    /\ n[1] = 0
    /\ dGt(xabs, zero)
    /\ ~stale[1]
    /\ result[1] = AloneNorm(x[1], 0)

\* C3: for n = 0 the loop body is executed zero times, no element of x is
\* read, the only assignment to ret_val is x3max * sqrt(s3) with
\* x3max = s3 = 0, and the value returned is 0 (rgiant / 0.0 having given
\* agiant = +Inf).
C3_EmptyVectorReturnsZero ==
    \A t \in Threads :
        (n[t] = 0 /\ pc[t] # "idle") =>
            /\ nbody[t] = 0
            /\ xread[t] = {}
            /\ pc[t] \notin {"L85", "L86", "L95", "L113", "L135", "L139"}
            /\ Finished(t) =>
                  /\ assigns[t] = <<"L161">>
                  /\ agiant = Inf
                  /\ dEq(x3max, zero) /\ dEq(s3, zero)
                  /\ ret_val[t] = [coef |-> zero, rad |-> zero]
                  /\ dEq(SquareOf(ret_val[t]), zero)
            /\ pc[t] = "done" => result[t] = ret_val[t]

\* C3 witness: an invocation with n = 0 has returned 0.
C3_Witness ==
    /\ pc[1] = "done"
    /\ n[1] = 0
    /\ dEq(SquareOf(result[1]), zero)

\* C4: the division agiant = rgiant / n is guarded: an invocation with
\* n = 0 never executes it, and never reaches the loop.
C4_AgiantDivisionGuarded ==
    \A t \in Threads :
        (n[t] = 0 /\ pc[t] # "idle") =>
            /\ "L82" \notin Sites(t)
            /\ pc[t] # "L84"

\* C5: for n >= 1 (and finite elements) no division executed by enorm_
\* has a zero divisor, in the loop or in the combine step.
C5_NoZeroDivisor ==
    \A t \in Threads :
        n[t] >= 1 => \A d \in divlog[t] : d[2] = FALSE

\* C5 witness: an invocation with n >= 1 has returned after executing the
\* divisions of both small branches (a new maximum, then a smaller nonzero
\* element) and of a combine formula.
C5_Witness ==
    /\ pc[1] = "done"
    /\ n[1] >= 1
    /\ {"L82", "L117", "L124", "L157"} \subseteq Sites(1)

\* The sum of the squares, and the largest absolute value, of the elements
\* among the first k of the window at off that the loop sends to section
\* sec under the threshold ag.
RECURSIVE SumSqOf(_, _, _, _)
SumSqOf(off, k, ag, sec) ==
    IF k = 0 THEN zero
    ELSE LET xa == dAbs(mem[off + k])
         IN  dAdd(SumSqOf(off, k - 1, ag, sec),
                  IF Section(xa, ag) = sec THEN dMul(xa, xa) ELSE zero)

RECURSIVE MaxAbsOf(_, _, _, _)
MaxAbsOf(off, k, ag, sec) ==
    IF k = 0 THEN zero
    ELSE LET xa == dAbs(mem[off + k])
             m == MaxAbsOf(off, k - 1, ag, sec)
         IN  IF Section(xa, ag) = sec /\ dGt(xa, m) THEN xa ELSE m

NonNegative(a) == dGe(a, zero)

SumsNonNegative ==
    /\ NonNegative(s1) /\ NonNegative(s2) /\ NonNegative(s3)
    /\ NonNegative(x1max) /\ NonNegative(x3max)

\* C6: s1, s2, s3, x1max and x3max are non-negative in every state, and no
\* step other than the initialisation of an invocation (enorm.c:76-80)
\* decreases x1max or x3max.
C6_NonNegativeAndMonotone ==
    /\ SumsNonNegative
    /\ [][/\ SumsNonNegative'
          /\ (\A t \in Threads : pc[t] # "L76") =>
                (dLe(x1max, x1max') /\ dLe(x3max, x3max'))]_vars

\* C6 witness: the loop has finished after summing two large elements and a
\* small one: s1 > 1, s3 > 0 and both maxima positive.
C6_Witness ==
    /\ pc[1] = "L144"
    /\ n[1] = MaxLen
    /\ dGt(s1, one) /\ dGt(s3, zero)
    /\ dGt(x1max, zero) /\ dGt(x3max, zero)

\* C7: for n >= 1, if every element of x is exactly 0 then every element
\* takes the small section, s1, s2, s3, x1max and x3max stay 0, and the
\* value returned is x3max * sqrt(s3) = 0.
C7_ZeroVectorReturnsZero ==
    \A t \in Threads :
        (/\ n[t] >= 1
         /\ pc[t] # "idle"
         /\ \A k \in 1..n[t] : mem[x[t] + k] = zero) =>
            /\ pc[t] \notin {"L95", "L135", "L147", "L153", "L156"}
            /\ Running(t) =>
                  /\ dEq(s1, zero) /\ dEq(s2, zero) /\ dEq(s3, zero)
                  /\ dEq(x1max, zero) /\ dEq(x3max, zero)
            /\ Finished(t) =>
                  /\ assigns[t] = <<"L161">>
                  /\ ret_val[t] = [coef |-> zero, rad |-> zero]
            /\ pc[t] = "done" =>
                  /\ result[t] = ret_val[t]
                  /\ dEq(SquareOf(result[t]), zero)

\* C7 witness: an invocation on MaxLen zero elements has returned.
C7_Witness ==
    /\ pc[1] = "done"
    /\ n[1] = MaxLen
    /\ \A k \in 1..MaxLen : mem[k] = zero
    /\ nbody[1] = MaxLen
    /\ dEq(SquareOf(result[1]), zero)

\* C8: the scaled-sum loop invariant, in exact arithmetic: once k elements
\* are processed, x1max is the largest absolute value among the large ones
\* of them and x1max^2 * s1 the sum of their squares; x3max and
\* x3max^2 * s3 likewise for the small ones; s2 is the sum of the squares
\* of the intermediate ones.
C8_ScaledSumInvariant ==
    \A t \in Threads :
        Running(t) =>
            LET k == Processed(t)
                off == x[t]
            IN  /\ k \in 0..n[t]
                /\ x1max = MaxAbsOf(off, k, agiant, "L95")
                /\ dMul(dMul(x1max, x1max), s1) = SumSqOf(off, k, agiant, "L95")
                /\ x3max = MaxAbsOf(off, k, agiant, "L113")
                /\ dMul(dMul(x3max, x3max), s3) = SumSqOf(off, k, agiant, "L113")
                /\ s2 = SumSqOf(off, k, agiant, "L135")

\* C8 witness: three elements processed, a large, an intermediate and a
\* small nonzero one among them.
C8_Witness ==
    /\ pc[1] = "L84"
    /\ i__ = 4
    /\ dGt(s1, zero) /\ dGt(s2, zero) /\ dGt(s3, zero)

\* The element thread t's loop body is working on.
Element(t) == mem[x[t] + i__]

\* C9: each loop iteration classifies its element into exactly one of the
\* three categories and updates that category's accumulators only: an
\* element with rdwarf < xabs < agiant changes s2 only, one with
\* xabs <= rdwarf at most s3 and x3max, one with xabs >= agiant only s1
\* and x1max; no statement of the loop changes the input vector.
C9_IterationFrame ==
    [][\A t \in Threads :
          /\ InLoop(t) => mem' = mem
          /\ pc[t] \in {"L84", "L85", "L86", "L139"} =>
                UNCHANGED <<s1, s2, s3, x1max, x3max>>
          /\ pc[t] \in {"L95", "L113", "L135"} =>
                LET xa == dAbs(Element(t))
                    inter == dGt(xa, rdwarf) /\ dLt(xa, agiant)
                    small == dLe(xa, rdwarf)
                    large == dGe(xa, agiant)
                IN  /\ xabs = xa
                    /\ (inter /\ ~small /\ ~large)
                         \/ (small /\ ~inter /\ ~large)
                         \/ (large /\ ~inter /\ ~small)
                    /\ inter => /\ UNCHANGED <<s1, s3, x1max, x3max>>
                                /\ s2' # s2
                    /\ small => UNCHANGED <<s1, s2, x1max>>
                    /\ large => UNCHANGED <<s2, s3, x3max>>]_vars

\* C9 witness: an element equal to agiant has just been summed as a large
\* one, after an element equal to rdwarf was summed as a small one.
C9_Witness ==
    /\ pc[1] = "L139"
    /\ dEq(xabs, agiant)
    /\ dEq(x1max, xabs)
    /\ dEq(x3max, rdwarf)
    /\ dEq(s2, zero)

\* The assignment the combine step's dominance policy selects.
Selected ==
    IF dNe(s1, zero) THEN "L147"
    ELSE IF dNe(s2, zero) THEN (IF dGe(s2, x3max) THEN "L154" ELSE "L157")
    ELSE "L161"

SelectedValue ==
    IF dNe(s1, zero) THEN LargeNorm(s1, s2, x1max).val
    ELSE IF dNe(s2, zero)
    THEN (IF dGe(s2, x3max) THEN InterGeNorm(s2, s3, x3max).val
                            ELSE InterLtNorm(s2, s3, x3max).val)
    ELSE SmallNorm(s3, x3max)

\* C10: on every path through the combine step ret_val is assigned exactly
\* once, by the statement and formula the dominance policy selects (the
\* large formula iff s1 != 0; else, if s2 != 0, exactly one of the two
\* intermediate formulas; else x3max * sqrt(s3)), and the value returned is
\* that assigned value, never an unassigned ret_val.
C10_RetValAssignedOnce ==
    \A t \in Threads :
        /\ Len(assigns[t]) <= 1
        /\ Finished(t) =>
              /\ assigns[t] = <<Selected>>
              /\ ret_val[t] # Unassigned
              /\ ret_val[t] = SelectedValue
        /\ pc[t] = "done" => result[t] = ret_val[t]

\* C10 witness: an invocation has returned the value assigned by the
\* second of the two intermediate ifs (s2 < x3max), the first not taken.
C10_Witness ==
    /\ pc[1] = "done"
    /\ assigns[1] = <<"L157">>
    /\ dLt(s2, x3max)
    /\ result[1] = InterLtNorm(s2, s3, x3max).val

====
